---- MODULE Spec2Model ----
(***************************************************************************)
(* Model of disputils/pagination.py: EmbedPaginator.formatted_pages and    *)
(* the reaction-driven navigation loop of EmbedPaginator.run.              *)
(*                                                                         *)
(* Embeds are objects on a heap: self.pages is a list of references, so    *)
(* the same embed object may occur at several positions.  A footer text    *)
(* is a sequence of string tokens; the f-string                            *)
(* f"{text} - ({i}/{n})" appends the tokens " - " and "(i/n)".             *)
(* List positions of pages are 1-based here (Python's are 0-based); the    *)
(* page indices of run (current_page_index, load_page_index) are kept      *)
(* 0-based as in the source.                                               *)
(***************************************************************************)
EXTENDS Integers, Sequences, FiniteSets, TLC

\* ---------------------------------------------------------------- bounds
MaxPages == 3      \* longest page list explored
MaxEvents == 4     \* reaction_add events delivered in one behaviour
MaxTimeout == 1    \* largest timeout argument explored (in clock ticks)
MaxItems == 3      \* longest origin_list handed to generate_sub_lists
MaxLenArg == 4     \* largest max_len handed to generate_sub_lists
MaxNegLenArg == 2  \* max_len down to -MaxNegLenArg
MaxSubLists == 5   \* sub_lists is followed up to this length

\* ------------------------------------------------------------- constants
\* discord.Embed.Empty, the sentinel of an unset footer text / icon_url
Empty == <<"Embed.Empty">>

\* self.control_emojis (the default tuple; names stand for the glyphs)
control_emojis == <<"FIRST", "PREVIOUS", "NEXT", "LAST", "CLOSE">>

\* an emoji that is not a control
OtherEmoji == "OTHER"

Emojis == {control_emojis[i] : i \in 1..Len(control_emojis)} \cup {OtherEmoji}

\* ids of the users that add reactions
UserIds == {1, 2}

\* channel types told apart by the isinstance tests of run
ChannelKinds == {"TextChannel", "DMChannel", "GroupChannel"}

\* outcomes of one awaited API call: success, discord.Forbidden, or any
\* other exception
Outcomes == {"ok", "Forbidden", "HTTPException"}

\* ids of messages a reaction can be added to: the message run sent, and a
\* message that existed before (the one handed to __init__, if any)
MessageIds == {"Sent", "Given"}

NoMessage == [id |-> "None", channel |-> "None"]

NoReaction == [message |-> "None", emoji |-> "None", user |-> 0]

NoCall == [op |-> "None", reaction |-> NoReaction, res |-> "None"]

Refs == 1..MaxPages                 \* the caller's embed objects
AllRefs == 1..(2 * MaxPages)        \* ... and their deep copies (r + MaxPages)

NoEmbed == [title |-> 0, text |-> Empty, icon |-> Empty]

\* an EmbedPaginator has no _ctx
NoCtx == [author |-> 0, channel |-> "None"]

\* run's argument users = None (BotEmbedPaginator.run); a list us is <<us>>
NoUsers == <<>>

\* line 59: timeout=100, the default BotEmbedPaginator.run leaves in place
DefaultTimeout == 100

VARIABLES
    pages,               \* self.pages: sequence of references into heap
    heap,                \* the caller's embed objects: Refs -> embed
    formatted,           \* value returned by the last read of formatted_pages
    message,             \* self.message
    users,               \* run's argument users (the set of their ids)
    channel,             \* run's local channel (kind), "None" if unresolved
    timeout,             \* run's argument timeout
    pc,                  \* where run is
    exc,                 \* exception run ended with, "None" otherwise
    current_page_index,
    load_page_index,
    reaction,            \* (reaction, user) returned by the last wait_for
    elapsed,             \* ticks since the current wait_for began
    shown,               \* embed displayed by the sent message
    reactions,           \* the bot's own reactions on the sent message, in order
    deleted,             \* the sent message was deleted
    nSent,               \* messages sent so far
    lastCall,            \* the last API call run awaited, and its outcome
    nEvents,             \* reaction_add events delivered so far
    ctx,                 \* self._ctx of a BotEmbedPaginator, NoCtx otherwise
    origin_list,         \* generate_sub_lists: the caller's list object
    max_len,             \* generate_sub_lists: its argument max_len
    sub_lists,           \* generate_sub_lists: its local sub_lists
    items0,              \* what origin_list held when generate_sub_lists was called
    cpc                  \* where generate_sub_lists is

\* generate_sub_lists is a static method: it shares nothing with a paginator
chunkVars == <<origin_list, max_len, sub_lists, items0, cpc>>

vars == <<pages, heap, formatted, message, users, channel, timeout, pc, exc,
          current_page_index, load_page_index, reaction, elapsed, shown,
          reactions, deleted, nSent, lastCall, nEvents, ctx, chunkVars>>

runVars == <<message, users, channel, timeout, pc, exc, current_page_index,
             load_page_index, reaction, elapsed, shown, reactions, deleted,
             nSent, lastCall, nEvents>>

\* ------------------------------------------------------ formatted_pages

\* the footer token "(i/n)" of f"({i}/{n})"
Marker(i, n) == "(" \o ToString(i) \o "/" \o ToString(n) \o ")"

\* Embed.set_footer(text=..., icon_url=...): replaces the whole footer
set_footer(embed, text, icon_url) ==
    [embed EXCEPT !.text = text, !.icon = icon_url]

\* mutant of deepcopy: "pages = self.pages", the list and its objects shared
deepcopy_ByReference(ps, h) ==
    [list |-> ps,
     heap |-> [r \in AllRefs |-> IF r \in Refs THEN h[r] ELSE h[r - MaxPages]]]

\* copy.deepcopy(self.pages): a new list of new objects; the memo of deepcopy
\* maps one original to one copy, so aliased positions stay aliased
deepcopy(ps, h) ==
    [list |-> [i \in 1..Len(ps) |-> ps[i] + MaxPages],
     heap |-> [r \in AllRefs |-> IF r \in Refs THEN h[r] ELSE h[r - MaxPages]]]

\* list.index(page), 1-based: the first position holding an object equal to
\* page (Embed defines no __eq__ where Embed.Empty exists: identity)
index(ps, page) ==
    CHOOSE i \in 1..Len(ps) : ps[i] = page /\ \A j \in 1..(i - 1) : ps[j] # page

\* one iteration of "for page in pages" (lines 44-56)
FormatStep(ps, h, page) ==
    IF h[page].text = Empty
    THEN [h EXCEPT ![page] =
            set_footer(h[page], <<Marker(index(ps, page), Len(ps))>>, Empty)]
    ELSE LET page_index == index(ps, page)
             text == h[page].text \o <<" - ", Marker(page_index, Len(ps))>>
         IN IF h[page].icon = Empty
            THEN [h EXCEPT ![page] = set_footer(h[page], text, Empty)]
            ELSE [h EXCEPT ![page] = set_footer(h[page], text, h[page].icon)]

RECURSIVE FormatLoop(_, _, _)
FormatLoop(ps, h, k) ==
    IF k > Len(ps) THEN h
    ELSE FormatLoop(ps, FormatStep(ps, h, ps[k]), k + 1)

\* the property formatted_pages: the list it returns and the heap it leaves
formatted_pages(ps, h) ==
    LET c == deepcopy(ps, h)
    IN [pages |-> c.list, heap |-> FormatLoop(c.list, c.heap, 1)]

\* the embeds of the returned list, position by position
FormattedEmbeds(ps, h) ==
    LET f == formatted_pages(ps, h)
    IN [i \in 1..Len(ps) |-> f.heap[f.pages[i]]]

\* the caller's objects after a read of formatted_pages
HeapAfterFormat(ps, h) ==
    LET f == formatted_pages(ps, h)
    IN [r \in Refs |-> f.heap[r]]

\* ------------------------------------------------------------ __init__

\* footers a caller's page can carry: text and icon_url each unset or set
Footers ==
    {[text |-> t, icon |-> i] : t \in {Empty, <<"txt">>}, i \in {Empty, <<"icon">>}}

\* page lists up to renaming of objects: position 1 holds object 1, and a
\* position holds an object seen before or the next new one
PageLists ==
    UNION {{ps \in [1..n -> Refs] :
              /\ ps[1] = 1
              /\ \A i \in 2..n : \E j \in 1..(i - 1) : ps[i] <= ps[j] + 1}
           : n \in 1..MaxPages}

UsedRefs(ps) == {ps[i] : i \in 1..Len(ps)}

\* no call of generate_sub_lists
ChunkIdle ==
    /\ origin_list = <<>>
    /\ max_len = 0
    /\ sub_lists = <<>>
    /\ items0 = <<>>
    /\ cpc = "idle"

\* the state run starts from (lines 30-36) and the environment's counters
InitRun ==
    /\ formatted = <<>>
    /\ users = {}
    /\ channel = "None"
    /\ timeout = 0
    /\ pc = "constructed"
    /\ exc = "None"
    /\ current_page_index = 0
    /\ load_page_index = 0
    /\ reaction = NoReaction
    /\ elapsed = 0
    /\ shown = NoEmbed
    /\ reactions = <<>>
    /\ deleted = FALSE
    /\ nSent = 0
    /\ lastCall = NoCall
    /\ nEvents = 0

\* EmbedPaginator(client, pages, message): 1..MaxPages distinct pages with
\* one kind of footer, with or without an existing message
Init ==
    /\ \E n \in 1..MaxPages, f \in Footers :
          /\ pages = [i \in 1..n |-> i]
          /\ heap = [r \in Refs |-> [title |-> r, text |-> f.text, icon |-> f.icon]]
    /\ message \in {NoMessage} \cup {[id |-> "Given", channel |-> k] : k \in ChannelKinds}
    /\ InitRun
    /\ ctx = NoCtx
    /\ ChunkIdle

\* EmbedPaginator(client, pages): any page list (objects may repeat), every
\* object with any footer
InitFmt ==
    /\ pages \in PageLists
    /\ heap \in {h \in [Refs -> [title : Refs, text : {Empty, <<"txt">>},
                                 icon : {Empty, <<"icon">>}]] :
                    \A r \in Refs :
                       /\ h[r].title = r
                       /\ r \notin UsedRefs(pages) => h[r].text = Empty /\ h[r].icon = Empty}
    /\ message = NoMessage
    /\ InitRun
    /\ ctx = NoCtx
    /\ ChunkIdle

\* ------------------------------------------------------------------ run

\* mutant of IsPrivate: the DMChannel test forgotten
IsPrivate_GroupOnly(ch) == ch = "GroupChannel"

\* mutant of IsPrivate: the GroupChannel test forgotten
IsPrivate_DMOnly(ch) == ch = "DMChannel"

\* lines 107-109, 144-146: isinstance(channel, DMChannel) or
\* isinstance(channel, GroupChannel)
IsPrivate(ch) == ch \in {"DMChannel", "GroupChannel"}

Call(op, r, res) == [op |-> op, reaction |-> r, res |-> res]

\* mutant of ResolveChannel: the message's channel wins over the argument
ResolveChannel_MessageFirst(ch, msg) ==
    IF msg # NoMessage THEN msg.channel ELSE ch

\* lines 76-79: the channel run works with, "None" when it raises TypeError
ResolveChannel(ch, msg) ==
    IF ch = "None" /\ msg # NoMessage THEN msg.channel ELSE ch

\* mutant of PathAfterResolve: the single-page shortcut missing
PathAfterResolve_AlwaysPaged(ps) == "send_first"

\* line 83: "if len(self.pages) == 1" picks the single-page path
PathAfterResolve(ps) == IF Len(ps) = 1 THEN "send_single" ELSE "send_first"

\* lines 76-83: resolve the channel, pick the single-page or the paged path
RunCall(us, ch, t) ==
    /\ pc = "constructed"
    /\ users' = us
    /\ timeout' = t
    /\ channel' = ResolveChannel(ch, message)
    /\ IF ResolveChannel(ch, message) = "None"
       THEN /\ pc' = "raised"
            /\ exc' = "TypeError"
       ELSE /\ pc' = PathAfterResolve(pages)
            /\ exc' = exc
    /\ UNCHANGED <<pages, heap, formatted, message, current_page_index,
                   load_page_index, reaction, elapsed, shown, reactions, deleted,
                   nSent, lastCall, nEvents>>
    /\ UNCHANGED <<ctx, chunkVars>>

\* an awaited call that raised: the exception leaves run
Raise(res) ==
    /\ pc' = "raised"
    /\ exc' = res

\* line 84: the embed the single-page path sends (self._embed = self.pages[0])
SingleEmbed(ps, h) == h[ps[1]]

\* lines 81, 84-85: self.message = await channel.send(embed=self._embed); return
SendSingle(res) ==
    /\ pc = "send_single"
    /\ lastCall' = Call("send", NoReaction, res)
    /\ IF res = "ok"
       THEN /\ message' = [id |-> "Sent", channel |-> channel]
            /\ shown' = SingleEmbed(pages, heap)
            /\ nSent' = nSent + 1
            /\ pc' = "returned"
            /\ exc' = exc
       ELSE /\ Raise(res)
            /\ UNCHANGED <<message, shown, nSent>>
    /\ UNCHANGED <<pages, heap, formatted, users, channel, timeout,
                   current_page_index, load_page_index, reaction, elapsed,
                   reactions, deleted, nEvents>>
    /\ UNCHANGED <<ctx, chunkVars>>

\* lines 87-88: self.message = await channel.send(embed=self.formatted_pages[0])
SendFirst(res) ==
    /\ pc = "send_first"
    /\ formatted' = FormattedEmbeds(pages, heap)
    /\ heap' = HeapAfterFormat(pages, heap)
    /\ lastCall' = Call("send", NoReaction, res)
    /\ IF res = "ok"
       THEN /\ message' = [id |-> "Sent", channel |-> channel]
            /\ shown' = FormattedEmbeds(pages, heap)[1]
            /\ nSent' = nSent + 1
            /\ current_page_index' = 0
            /\ pc' = "add_reaction"
            /\ exc' = exc
       ELSE /\ Raise(res)
            /\ UNCHANGED <<message, shown, nSent, current_page_index>>
    /\ UNCHANGED <<pages, users, channel, timeout, load_page_index,
                   reaction, elapsed, reactions, deleted, nEvents>>
    /\ UNCHANGED <<ctx, chunkVars>>

\* mutant of AddReaction: the loop stops one emoji early
AddReaction_FourOnly(res) ==
    /\ pc = "add_reaction"
    /\ lastCall' = Call("add_reaction", NoReaction, res)
    /\ IF res = "ok"
       THEN /\ reactions' = Append(reactions, control_emojis[Len(reactions) + 1])
            /\ pc' = IF Len(reactions) + 1 = Len(control_emojis) - 1
                     THEN "wait_for" ELSE "add_reaction"
            /\ exc' = exc
       ELSE /\ Raise(res)
            /\ UNCHANGED reactions
    /\ elapsed' = 0
    /\ UNCHANGED <<pages, heap, formatted, message, users, channel, timeout,
                   current_page_index, load_page_index, reaction, shown, deleted,
                   nSent, nEvents>>
    /\ UNCHANGED <<ctx, chunkVars>>

\* lines 90-91: one iteration of "for emoji in self.control_emojis"; after
\* the last one run reaches its first wait_for (line 103)
AddReaction(res) ==
    /\ pc = "add_reaction"
    /\ lastCall' = Call("add_reaction", NoReaction, res)
    /\ IF res = "ok"
       THEN /\ reactions' = Append(reactions, control_emojis[Len(reactions) + 1])
            /\ pc' = IF Len(reactions) + 1 = Len(control_emojis)
                     THEN "wait_for" ELSE "add_reaction"
            /\ exc' = exc
       ELSE /\ Raise(res)
            /\ UNCHANGED reactions
    /\ elapsed' = 0
    /\ UNCHANGED <<pages, heap, formatted, message, users, channel, timeout,
                   current_page_index, load_page_index, reaction, shown, deleted,
                   nSent, nEvents>>
    /\ UNCHANGED <<ctx, chunkVars>>

\* mutant of check: the permitted-user test missing
check_AnyUser(r_message_id, r_emoji, u_id) ==
    (r_message_id = message.id)
    /\ (\E i \in 1..Len(control_emojis) : control_emojis[i] = r_emoji)

\* mutant of check: the control-emoji test missing
check_AnyEmoji(r_message_id, r_emoji, u_id) ==
    LET res == (r_message_id = message.id)
    IN IF Cardinality(users) > 0 THEN res /\ u_id \in users ELSE res

\* lines 93-99: the predicate handed to wait_for
check(r_message_id, r_emoji, u_id) ==
    LET res == (r_message_id = message.id)
               /\ (\E i \in 1..Len(control_emojis) : control_emojis[i] = r_emoji)
    IN IF Cardinality(users) > 0 THEN res /\ u_id \in users ELSE res

\* mutant of LoadPageIndex: "next" without the test against max_index
LoadPageIndex_NextUnbounded(emoji, cur, max_index) ==
    IF emoji = control_emojis[1] THEN 0
    ELSE IF emoji = control_emojis[2] THEN (IF cur > 0 THEN cur - 1 ELSE cur)
    ELSE IF emoji = control_emojis[3] THEN cur + 1
    ELSE IF emoji = control_emojis[4] THEN max_index
    ELSE -1

\* mutant of LoadPageIndex: "last" loads len(self.pages) instead of max_index
LoadPageIndex_LastIsLen(emoji, cur, max_index) ==
    IF emoji = control_emojis[1] THEN 0
    ELSE IF emoji = control_emojis[2] THEN (IF cur > 0 THEN cur - 1 ELSE cur)
    ELSE IF emoji = control_emojis[3] THEN (IF cur < max_index THEN cur + 1 ELSE cur)
    ELSE IF emoji = control_emojis[4] THEN max_index + 1
    ELSE -1

\* mutant of LoadPageIndex: the else branch (close) reloads the current page
LoadPageIndex_CloseReloads(emoji, cur, max_index) ==
    IF emoji = control_emojis[1] THEN 0
    ELSE IF emoji = control_emojis[2] THEN (IF cur > 0 THEN cur - 1 ELSE cur)
    ELSE IF emoji = control_emojis[3] THEN (IF cur < max_index THEN cur + 1 ELSE cur)
    ELSE IF emoji = control_emojis[4] THEN max_index
    ELSE cur

\* lines 116-141: the index the emoji selects, -1 for the else branch
LoadPageIndex(emoji, cur, max_index) ==
    IF emoji = control_emojis[1] THEN 0
    ELSE IF emoji = control_emojis[2] THEN (IF cur > 0 THEN cur - 1 ELSE cur)
    ELSE IF emoji = control_emojis[3] THEN (IF cur < max_index THEN cur + 1 ELSE cur)
    ELSE IF emoji = control_emojis[4] THEN max_index
    ELSE -1

\* mutant of Accept: the listener stays registered while run edits the
\* message and removes the reaction
Accept_WhileBusy(m, e, u) ==
    /\ pc \in {"wait_for", "edit", "remove_reaction"}
    /\ nEvents < MaxEvents
    /\ check(m, e, u)
    /\ nEvents' = nEvents + 1
    /\ reaction' = [message |-> m, emoji |-> e, user |-> u]
    /\ LET load == LoadPageIndex(e, current_page_index, Len(pages) - 1)
       IN IF load >= 0
          THEN /\ load_page_index' = load
               /\ pc' = "edit"
          ELSE /\ load_page_index' = load_page_index
               /\ pc' = "delete"
    /\ UNCHANGED <<pages, heap, formatted, message, users, channel, timeout, exc,
                   current_page_index, elapsed, shown, reactions, deleted,
                   nSent, lastCall>>
    /\ UNCHANGED <<ctx, chunkVars>>

\* a reaction_add event that passes check while run is suspended in wait_for:
\* wait_for returns it and lines 116-141 pick the branch
Accept(m, e, u) ==
    /\ pc = "wait_for"
    /\ nEvents < MaxEvents
    /\ check(m, e, u)
    /\ nEvents' = nEvents + 1
    /\ reaction' = [message |-> m, emoji |-> e, user |-> u]
    /\ LET load == LoadPageIndex(e, current_page_index, Len(pages) - 1)
       IN IF load >= 0
          THEN /\ load_page_index' = load
               /\ pc' = "edit"
          ELSE /\ load_page_index' = load_page_index
               /\ pc' = "delete"
    /\ UNCHANGED <<pages, heap, formatted, message, users, channel, timeout, exc,
                   current_page_index, elapsed, shown, reactions, deleted,
                   nSent, lastCall>>
    /\ UNCHANGED <<ctx, chunkVars>>

\* a reaction_add event that fails check: wait_for keeps waiting
Reject(m, e, u) ==
    /\ pc = "wait_for"
    /\ nEvents < MaxEvents
    /\ ~check(m, e, u)
    /\ nEvents' = nEvents + 1
    /\ UNCHANGED <<pages, heap, formatted, message, users, channel, timeout, pc,
                   exc, current_page_index, load_page_index, reaction, elapsed,
                   shown, reactions, deleted, nSent, lastCall>>
    /\ UNCHANGED <<ctx, chunkVars>>

\* a reaction_add event dispatched while run is not inside wait_for: no
\* listener is registered, the event is gone
Missed(m, e, u) ==
    /\ pc # "wait_for"
    /\ nEvents < MaxEvents
    /\ nEvents' = nEvents + 1
    /\ UNCHANGED <<pages, heap, formatted, message, users, channel, timeout, pc,
                   exc, current_page_index, load_page_index, reaction, elapsed,
                   shown, reactions, deleted, nSent, lastCall>>
    /\ UNCHANGED <<ctx, chunkVars>>

\* time passes during a wait_for whose timeout has not expired
Tick ==
    /\ pc = "wait_for"
    /\ elapsed < timeout
    /\ elapsed' = elapsed + 1
    /\ UNCHANGED <<pages, heap, formatted, message, users, channel, timeout, pc,
                   exc, current_page_index, load_page_index, reaction, shown,
                   reactions, deleted, nSent, lastCall, nEvents>>
    /\ UNCHANGED <<ctx, chunkVars>>

\* lines 106-109, 114: asyncio.TimeoutError out of wait_for
Timeout ==
    /\ pc = "wait_for"
    /\ elapsed = timeout
    /\ pc' = IF ~IsPrivate(channel) THEN "clear_reactions" ELSE "returned"
    /\ UNCHANGED <<pages, heap, formatted, message, users, channel, timeout, exc,
                   current_page_index, load_page_index, reaction, elapsed, shown,
                   reactions, deleted, nSent, lastCall, nEvents>>
    /\ UNCHANGED <<ctx, chunkVars>>

\* lines 110-114: await self.message.clear_reactions(), Forbidden passed over
ClearReactions(res) ==
    /\ pc = "clear_reactions"
    /\ lastCall' = Call("clear_reactions", NoReaction, res)
    /\ IF res = "ok"
       THEN /\ reactions' = <<>>
            /\ pc' = "returned"
            /\ exc' = exc
       ELSE IF res = "Forbidden"
       THEN /\ pc' = "returned"
            /\ UNCHANGED <<reactions, exc>>
       ELSE /\ Raise(res)
            /\ UNCHANGED reactions
    /\ UNCHANGED <<pages, heap, formatted, message, users, channel, timeout,
                   current_page_index, load_page_index, reaction, elapsed, shown,
                   deleted, nSent, nEvents>>
    /\ UNCHANGED <<ctx, chunkVars>>

\* lines 152, 101-103: current_page_index = load_page_index, next wait_for
NextWait ==
    /\ current_page_index' = load_page_index
    /\ elapsed' = 0
    /\ pc' = "wait_for"

\* lines 143-146: await self.message.edit(embed=self.formatted_pages[load_page_index])
Edit(res) ==
    /\ pc = "edit"
    /\ formatted' = FormattedEmbeds(pages, heap)
    /\ heap' = HeapAfterFormat(pages, heap)
    /\ lastCall' = Call("edit", NoReaction, res)
    /\ IF res = "ok"
       THEN /\ shown' = FormattedEmbeds(pages, heap)[load_page_index + 1]
            /\ exc' = exc
            /\ IF ~IsPrivate(channel)
               THEN /\ pc' = "remove_reaction"
                    /\ UNCHANGED <<current_page_index, elapsed>>
               ELSE NextWait
       ELSE /\ Raise(res)
            /\ UNCHANGED <<shown, current_page_index, elapsed>>
    /\ UNCHANGED <<pages, message, users, channel, timeout, load_page_index,
                   reaction, reactions, deleted, nSent, nEvents>>
    /\ UNCHANGED <<ctx, chunkVars>>

\* mutant of RemoveReaction: "except discord.Forbidden: pass" missing
RemoveReaction_ForbiddenRaises(res) ==
    /\ pc = "remove_reaction"
    /\ lastCall' = Call("remove_reaction", reaction, res)
    /\ IF res = "ok"
       THEN /\ NextWait
            /\ exc' = exc
       ELSE /\ Raise(res)
            /\ UNCHANGED <<current_page_index, elapsed>>
    /\ UNCHANGED <<pages, heap, formatted, message, users, channel, timeout,
                   load_page_index, reaction, shown, reactions, deleted, nSent,
                   nEvents>>
    /\ UNCHANGED <<ctx, chunkVars>>

\* lines 147-152: await self.message.remove_reaction(reaction, user),
\* Forbidden passed over
RemoveReaction(res) ==
    /\ pc = "remove_reaction"
    /\ lastCall' = Call("remove_reaction", reaction, res)
    /\ IF res \in {"ok", "Forbidden"}
       THEN /\ NextWait
            /\ exc' = exc
       ELSE /\ Raise(res)
            /\ UNCHANGED <<current_page_index, elapsed>>
    /\ UNCHANGED <<pages, heap, formatted, message, users, channel, timeout,
                   load_page_index, reaction, shown, reactions, deleted, nSent,
                   nEvents>>
    /\ UNCHANGED <<ctx, chunkVars>>

\* lines 139-141: await self.message.delete(); return
Delete(res) ==
    /\ pc = "delete"
    /\ lastCall' = Call("delete", NoReaction, res)
    /\ IF res = "ok"
       THEN /\ deleted' = TRUE
            /\ pc' = "returned"
            /\ exc' = exc
       ELSE /\ Raise(res)
            /\ UNCHANGED deleted
    /\ UNCHANGED <<pages, heap, formatted, message, users, channel, timeout,
                   current_page_index, load_page_index, reaction, elapsed, shown,
                   reactions, nSent, nEvents>>
    /\ UNCHANGED <<ctx, chunkVars>>

\* a read of the property formatted_pages from outside run (lines 38-57)
ReadFormattedPages ==
    /\ pc \in {"constructed", "returned", "raised"}
    /\ formatted' = FormattedEmbeds(pages, heap)
    /\ heap' = HeapAfterFormat(pages, heap)
    /\ UNCHANGED pages
    /\ UNCHANGED runVars
    /\ UNCHANGED <<ctx, chunkVars>>

\* ---------------------------------------------------- generate_sub_lists

\* an element of sub_lists: a new list (a slice) with its own contents, or
\* the object origin_list itself
NewList(l) == [alias |-> FALSE, val |-> l]
OriginItself == [alias |-> TRUE, val |-> <<>>]

\* number of elements a slice l[:k] takes: k of them, all when k is beyond
\* the end, all but the last -k when k is negative
SliceLen(l, k) ==
    IF k >= 0 THEN (IF k <= Len(l) THEN k ELSE Len(l))
    ELSE (IF Len(l) + k >= 0 THEN Len(l) + k ELSE 0)

\* mutant of Slice: origin_list[:max_len + 1]
Slice_OneMore(l, k) == SubSeq(l, 1, SliceLen(l, k + 1))

\* line 183: origin_list[:max_len]
Slice(l, k) == SubSeq(l, 1, SliceLen(l, k))

\* line 184: origin_list after del origin_list[:max_len]
DelSlice(l, k) == SubSeq(l, SliceLen(l, k) + 1, Len(l))

\* the lists generate_sub_lists is called with
ItemLists == UNION {[1..n -> {1, 2}] : n \in 0..MaxItems}

\* generate_sub_lists(origin_list, max_len) has just been called
InitChunk ==
    /\ pages = <<1>>
    /\ heap = [r \in Refs |-> [title |-> r, text |-> Empty, icon |-> Empty]]
    /\ message = NoMessage
    /\ InitRun
    /\ ctx = NoCtx
    /\ origin_list \in ItemLists
    /\ max_len \in (-MaxNegLenArg)..MaxLenArg
    /\ sub_lists = <<>>
    /\ items0 = origin_list
    /\ cpc = "call"

\* lines 179-180, 188-191: the test that picks the branch; the else branch
\* returns [origin_list]
ChunkCall ==
    /\ cpc = "call"
    /\ IF Len(origin_list) > max_len
       THEN /\ sub_lists' = <<>>
            /\ cpc' = "loop"
       ELSE /\ sub_lists' = <<OriginItself>>
            /\ cpc' = "returned"
    /\ UNCHANGED <<origin_list, max_len, items0>>
    /\ UNCHANGED <<pages, heap, formatted, ctx>>
    /\ UNCHANGED runVars

\* lines 182-184: one iteration of the while loop
ChunkLoop ==
    /\ cpc = "loop"
    /\ Len(origin_list) > max_len
    /\ Len(sub_lists) < MaxSubLists
    /\ sub_lists' = Append(sub_lists, NewList(Slice(origin_list, max_len)))
    /\ origin_list' = DelSlice(origin_list, max_len)
    /\ UNCHANGED <<max_len, items0, cpc>>
    /\ UNCHANGED <<pages, heap, formatted, ctx>>
    /\ UNCHANGED runVars

\* lines 182, 186, 191: the loop ends, origin_list itself is appended
ChunkExit ==
    /\ cpc = "loop"
    /\ ~(Len(origin_list) > max_len)
    /\ sub_lists' = Append(sub_lists, OriginItself)
    /\ cpc' = "returned"
    /\ UNCHANGED <<origin_list, max_len, items0>>
    /\ UNCHANGED <<pages, heap, formatted, ctx>>
    /\ UNCHANGED runVars

NextChunk ==
    \/ ChunkCall
    \/ ChunkLoop
    \/ ChunkExit

SpecChunk == InitChunk /\ [][NextChunk]_vars

\* ---------------------------------------------------- BotEmbedPaginator

\* BotEmbedPaginator(ctx, pages, message) (lines 195-215): an EmbedPaginator
\* that keeps the invoking context, its author and its channel
InitBot ==
    /\ \E n \in 1..MaxPages :
          /\ pages = [i \in 1..n |-> i]
          /\ heap = [r \in Refs |-> [title |-> r, text |-> Empty, icon |-> Empty]]
    /\ message \in {NoMessage} \cup {[id |-> "Given", channel |-> k] : k \in ChannelKinds}
    /\ InitRun
    /\ ctx \in [author : UserIds, channel : ChannelKinds]
    /\ ChunkIdle

\* mutant of BotUsers: an empty list also falls back to the author
BotUsers_EmptyIsAuthor(us, c) ==
    IF us = NoUsers \/ us = <<{}>> THEN {c.author} ELSE us[1]

\* lines 237-238: users = [self._ctx.author] if users is None
BotUsers(us, c) == IF us = NoUsers THEN {c.author} ELSE us[1]

\* lines 240-241: channel = self._ctx.channel if there is neither a message
\* nor a channel
BotChannel(ch, msg, c) ==
    IF msg = NoMessage /\ ch = "None" THEN c.channel ELSE ch

\* lines 217-243: BotEmbedPaginator.run(channel, users), which ends in
\* super().run(users, channel)
BotRunCall(ch, us) ==
    /\ ctx # NoCtx
    /\ RunCall(BotUsers(us, ctx), BotChannel(ch, message, ctx), DefaultTimeout)

\* lines 101-106: the rest of the timeout passes in one step (DefaultTimeout
\* unit steps of Tick, none of which changes anything but elapsed)
WaitOut ==
    /\ pc = "wait_for"
    /\ elapsed < timeout
    /\ elapsed' = timeout
    /\ UNCHANGED <<pages, heap, formatted, message, users, channel, timeout, pc,
                   exc, current_page_index, load_page_index, reaction, shown,
                   reactions, deleted, nSent, lastCall, nEvents>>
    /\ UNCHANGED <<ctx, chunkVars>>

\* what run awaits after the call, and the events delivered meanwhile
RunSteps ==
    \/ \E res \in Outcomes : SendSingle(res)
    \/ \E res \in Outcomes : SendFirst(res)
    \/ \E res \in Outcomes : AddReaction(res)
    \/ \E m \in MessageIds, e \in Emojis, u \in UserIds : Accept(m, e, u)
    \/ \E m \in MessageIds, e \in Emojis, u \in UserIds : Reject(m, e, u)
    \/ \E m \in MessageIds, e \in Emojis, u \in UserIds : Missed(m, e, u)
    \/ Timeout
    \/ \E res \in Outcomes : ClearReactions(res)
    \/ \E res \in Outcomes : Edit(res)
    \/ \E res \in Outcomes : RemoveReaction(res)
    \/ \E res \in Outcomes : Delete(res)
    \/ ReadFormattedPages

NextBot ==
    \/ \E ch \in ChannelKinds \cup {"None"},
          us \in {NoUsers} \cup {<<s>> : s \in SUBSET UserIds} :
          BotRunCall(ch, us)
    \/ WaitOut
    \/ RunSteps

SpecBot == InitBot /\ [][NextBot]_vars

Next ==
    \/ \E us \in SUBSET UserIds, ch \in ChannelKinds \cup {"None"}, t \in 1..MaxTimeout :
          RunCall(us, ch, t)
    \/ \E res \in Outcomes : SendSingle(res)
    \/ \E res \in Outcomes : SendFirst(res)
    \/ \E res \in Outcomes : AddReaction(res)
    \/ \E m \in MessageIds, e \in Emojis, u \in UserIds : Accept(m, e, u)
    \/ \E m \in MessageIds, e \in Emojis, u \in UserIds : Reject(m, e, u)
    \/ \E m \in MessageIds, e \in Emojis, u \in UserIds : Missed(m, e, u)
    \/ Tick
    \/ Timeout
    \/ \E res \in Outcomes : ClearReactions(res)
    \/ \E res \in Outcomes : Edit(res)
    \/ \E res \in Outcomes : RemoveReaction(res)
    \/ \E res \in Outcomes : Delete(res)
    \/ ReadFormattedPages

Spec == Init /\ [][Next]_vars

\* the formatter alone: reads of the property on any page list
NextFmt == ReadFormattedPages

SpecFmt == InitFmt /\ [][NextFmt]_vars

\* ======================================================== properties

Max2(a, b) == IF a >= b THEN a ELSE b
Min2(a, b) == IF a <= b THEN a ELSE b

\* run has ended: it returned or an exception left it
Closed == pc \in {"returned", "raised"}

\* the four navigational controls, by name
NavEmojis == {"FIRST", "PREVIOUS", "NEXT", "LAST"}

\* the index a navigational control leads to from index i on n pages
NavTarget(e, i, n) ==
    CASE e = "FIRST" -> 0
      [] e = "PREVIOUS" -> Max2(i - 1, 0)
      [] e = "NEXT" -> Min2(i + 1, n - 1)
      [] e = "LAST" -> n - 1

\* next, next, next, first on 3 pages from index 0, as lines 116-137 compute it
ExampleVisits ==
    LET i1 == LoadPageIndex("NEXT", 0, 2)
        i2 == LoadPageIndex("NEXT", i1, 2)
        i3 == LoadPageIndex("NEXT", i2, 2)
        i4 == LoadPageIndex("FIRST", i3, 2)
    IN <<i1, i2, i3, i4>>

\* C1: every accepted navigational event loads first -> 0, previous ->
\* max(i-1, 0), next -> min(i+1, N-1), last -> N-1, and that index becomes the
\* current index when the event has been handled; next, next, next, first on
\* 3 pages visits 1, 2, 2, 0.
C1_NavigationBounds ==
    [][/\ (pc = "wait_for" /\ pc' = "edit") =>
             /\ Len(pages) >= 2
             /\ reaction'.emoji \in NavEmojis
             /\ load_page_index' =
                   NavTarget(reaction'.emoji, current_page_index, Len(pages))
       /\ (pc \in {"edit", "remove_reaction"} /\ pc' = "wait_for") =>
             current_page_index' = load_page_index
       /\ (pc = "wait_for" /\ pc' \in {"wait_for", "edit"}) =>
             current_page_index' = current_page_index
       /\ ExampleVisits = <<1, 2, 2, 0>>]_vars

\* C1 witness: "next" was accepted on the last of 3 pages, loaded the same
\* page, and run waits again at that index.
C1_Witness ==
    /\ Len(pages) = 3
    /\ pc = "wait_for"
    /\ reaction.emoji = "NEXT"
    /\ current_page_index = 2
    /\ load_page_index = 2
    /\ nEvents = 3
    /\ lastCall.op = "remove_reaction"

\* C2: the current page index of a session, and the index it is loading, are
\* always indices of a page, and the current index is 0 from the start until
\* the first event is accepted.
C2_IndexInRange ==
    /\ current_page_index \in 0..(Len(pages) - 1)
    /\ load_page_index \in 0..(Len(pages) - 1)
    /\ reaction = NoReaction => current_page_index = 0

\* C2 witness: a three-page session waits at the last index after events
\* from both users.
C2_Witness ==
    /\ Len(pages) = 3
    /\ pc = "wait_for"
    /\ users = {}
    /\ current_page_index = 2
    /\ reaction.user = 2
    /\ nEvents = MaxEvents

\* the acceptance condition: a control emoji, on the live (sent) message, from
\* a permitted user or with nobody named
Qualifies(m, e, u) ==
    /\ e \in {"FIRST", "PREVIOUS", "NEXT", "LAST", "CLOSE"}
    /\ m = "Sent"
    /\ (users = {} \/ u \in users)

\* what a rejected event must leave alone
sessionVars ==
    <<pc, exc, current_page_index, load_page_index, reaction, shown, reactions,
      deleted, message, lastCall, nSent, elapsed, heap>>

\* C3: while the session waits, an event is accepted iff it qualifies, and an
\* event that does not qualify is rejected and changes nothing of the session;
\* with no permitted users named, every user's control event on the live
\* message is accepted.
C3_AcceptIffQualifies ==
    (pc = "wait_for" /\ nEvents < MaxEvents) =>
        \A m \in MessageIds, e \in Emojis, u \in UserIds :
            IF Qualifies(m, e, u)
            THEN /\ ENABLED Accept(m, e, u)
                 /\ ~ENABLED Reject(m, e, u)
            ELSE /\ ~ENABLED Accept(m, e, u)
                 /\ ENABLED Reject(m, e, u)
                 /\ ~ENABLED (Reject(m, e, u) /\ sessionVars' # sessionVars)

\* C3 witness: the session waits with user 1 alone permitted, and a control
\* event of user 2 on the live message is about to be rejected.
C3_Witness ==
    /\ pc = "wait_for"
    /\ users = {1}
    /\ current_page_index = 1
    /\ ENABLED Reject("Sent", "NEXT", 2)
    /\ ENABLED Accept("Sent", "NEXT", 1)

\* C4: an accepted event takes the delete branch exactly when it carries the
\* close control; the delete call, when it succeeds, deletes the live message
\* and run returns; once run has ended no event changes the session (no edit,
\* reaction removal, clearing or index change).
C4_CloseIsFinal ==
    [][/\ (pc = "wait_for" /\ pc' \in {"edit", "delete"}) =>
             (pc' = "delete" <=> reaction'.emoji = "CLOSE")
       /\ pc = "delete" =>
             /\ pc' \in {"delete", "returned", "raised"}
             /\ pc' = "returned" => (deleted' /\ lastCall' = Call("delete", NoReaction, "ok"))
             /\ pc' = "raised" => (exc' = lastCall'.res /\ lastCall'.op = "delete")
             /\ pc' = "delete" => UNCHANGED <<deleted, lastCall>>
       /\ Closed =>
             UNCHANGED <<pc, exc, current_page_index, load_page_index, reaction,
                         shown, reactions, deleted, message, lastCall, nSent>>]_vars

\* C4 witness: the close control was accepted, the message is deleted, run
\* has returned, and further events have been delivered since.
C4_Witness ==
    /\ pc = "returned"
    /\ deleted
    /\ reaction.emoji = "CLOSE"
    /\ lastCall.op = "delete"
    /\ current_page_index = 1
    /\ nEvents = MaxEvents

\* C5 as claimed: while the session waits, a reaction of a permitted user on
\* the live message whose emoji is no control is taken by the session and
\* leads to the delete branch.
C5_OtherEmojiCloses ==
    (pc = "wait_for" /\ nEvents < MaxEvents) =>
        \A u \in UserIds :
            (users = {} \/ u \in users) =>
                ENABLED (Accept("Sent", OtherEmoji, u) /\ pc' = "delete")

\* C5 as amended: a reaction whose emoji is none of the 5 controls is never
\* accepted, whoever adds it: it is rejected and changes nothing of the
\* session; the delete branch is only ever taken for the close control.
C5_OtherEmojiRejected ==
    /\ (pc = "wait_for" /\ nEvents < MaxEvents) =>
          \A m \in MessageIds, u \in UserIds :
              /\ ~ENABLED Accept(m, OtherEmoji, u)
              /\ ENABLED Reject(m, OtherEmoji, u)
              /\ ~ENABLED (Reject(m, OtherEmoji, u) /\ sessionVars' # sessionVars)
    /\ (pc = "delete" \/ deleted) => reaction.emoji = "CLOSE"

\* C5 witness: the session waits after a navigation, both users are
\* permitted, and a non-control reaction of user 1 on the live message is
\* about to be rejected.
C5_Witness ==
    /\ pc = "wait_for"
    /\ users = {1, 2}
    /\ ~deleted
    /\ reaction.emoji = "LAST"
    /\ ENABLED Reject("Sent", OtherEmoji, 1)

\* C6: wait_for times out only when the timeout of the current wait has
\* run out, and then it can; on a timeout nothing is deleted or re-rendered,
\* clear_reactions is called exactly when the channel is neither a DMChannel nor
\* a GroupChannel; the call's success empties the reactions, its Forbidden is
\* passed over, and in both cases run returns without an exception; every
\* wait_for starts its own timeout.
C6_Timeout ==
    [][/\ (pc = "wait_for" /\ pc' \notin {"wait_for", "edit", "delete"}) =>
             /\ elapsed = timeout
             /\ pc' \in {"clear_reactions", "returned"}
             /\ pc' = "clear_reactions" <=> channel \notin {"DMChannel", "GroupChannel"}
             /\ UNCHANGED <<shown, deleted, reactions, exc, lastCall,
                            current_page_index, message>>
       /\ (pc = "wait_for" /\ elapsed = timeout) => ENABLED Timeout
       /\ (pc = "wait_for" /\ elapsed < timeout) => ~ENABLED Timeout
       /\ pc = "clear_reactions" =>
             /\ pc' \in {"clear_reactions", "returned", "raised"}
             /\ UNCHANGED <<shown, deleted, current_page_index, message>>
             /\ pc' = "returned" =>
                   /\ lastCall'.op = "clear_reactions"
                   /\ lastCall'.res \in {"ok", "Forbidden"}
                   /\ exc' = "None"
                   /\ reactions' = IF lastCall'.res = "ok" THEN <<>> ELSE reactions
             /\ pc' = "raised" => lastCall'.res \notin {"ok", "Forbidden"}
       /\ (pc # "wait_for" /\ pc' = "wait_for") => elapsed' = 0
       /\ (pc = "wait_for" /\ pc' = "wait_for") => elapsed' \in {elapsed, elapsed + 1}
       /\ (pc \in {"wait_for", "clear_reactions"}) => timeout' = timeout]_vars

\* C6 witness: after an accepted "next" the session timed out in a text
\* channel, clear_reactions was refused, and run returned with the message
\* and its five reactions in place.
C6_Witness ==
    /\ pc = "returned"
    /\ exc = "None"
    /\ channel = "TextChannel"
    /\ lastCall = Call("clear_reactions", NoReaction, "Forbidden")
    /\ reaction.emoji = "NEXT"
    /\ current_page_index = 1
    /\ ~deleted
    /\ Len(reactions) = 5
    /\ shown.title = 2

\* C7: with exactly one page run sends at most one message, and exactly one
\* when it returns; it attaches no reaction, never reaches wait_for and makes
\* no call but the send.
C7_SinglePage ==
    Len(pages) = 1 =>
        /\ pc \in {"constructed", "send_single", "returned", "raised"}
        /\ reactions = <<>>
        /\ reaction = NoReaction
        /\ nSent <= 1
        /\ lastCall.op \in {"None", "send"}
        /\ pc = "returned" =>
              /\ nSent = 1
              /\ lastCall = Call("send", NoReaction, "ok")
              /\ message.id = "Sent"
        /\ pc = "send_single" => nSent = 0

\* C7 witness: run returned on a single page after its one send, and events
\* have been delivered.
C7_Witness ==
    /\ Len(pages) = 1
    /\ pc = "returned"
    /\ nSent = 1
    /\ reactions = <<>>
    /\ nEvents = 2

\* C8 as claimed: with exactly one page, the message run sent shows the
\* formatter's output for the first page, whose footer ends in "(1/1)".
C8_SinglePageFormatted ==
    (Len(pages) = 1 /\ pc = "returned") =>
        /\ shown = FormattedEmbeds(pages, heap)[1]
        /\ shown.text[Len(shown.text)] = Marker(1, 1)

\* every marker token a list of up to MaxPages pages can carry
Markers == {Marker(a, b) : a, b \in 1..MaxPages}

MarkerCount(text) == Cardinality({k \in 1..Len(text) : text[k] \in Markers})

\* the footer text position i of n must carry, given the input page's footer
ExpectedText(in, i, n) ==
    IF in.text = Empty THEN <<Marker(i, n)>> ELSE in.text \o <<" - ", Marker(i, n)>>

\* C9 as claimed: formatted_pages returns as many pages as it was given, and
\* the footer text at each position is the marker of that position alone (input
\* footer text unset), or the input text, " - " and that marker, with the icon
\* kept; it holds exactly one marker.
C9_FooterPerPosition ==
    formatted # <<>> =>
        /\ Len(formatted) = Len(pages)
        /\ \A i \in 1..Len(pages) :
              LET in == heap[pages[i]]
              IN /\ formatted[i].text = ExpectedText(in, i, Len(pages))
                 /\ in.text # Empty => formatted[i].icon = in.icon
                 /\ MarkerCount(formatted[i].text) = 1

\* the statement of C9 for page lists in which no object occurs twice
FooterPerPositionWhenDistinct ==
    Cardinality(UsedRefs(pages)) = Len(pages) => C9_FooterPerPosition

\* C10: no step changes self.pages or any embed the caller supplied, and a
\* later read of formatted_pages returns what the earlier one returned.
C10_PagesNeverMutated ==
    [][/\ heap' = heap
       /\ pages' = pages
       /\ formatted # <<>> => formatted' = formatted]_vars

\* C10 witness: a three-page session with footer texts was navigated to the
\* last page and closed, and formatted_pages has been read.
C10_Witness ==
    /\ Len(pages) = 3
    /\ heap[1].text = <<"txt">>
    /\ heap[1].icon = <<"icon">>
    /\ pc = "returned"
    /\ deleted
    /\ shown.title = 3
    /\ formatted # <<>>
    /\ nEvents = 3

\* what an element of sub_lists holds
Contents(entry) == IF entry.alias THEN origin_list ELSE entry.val

RECURSIVE ConcatLists(_, _)
ConcatLists(ls, k) ==
    IF k > Len(ls) THEN <<>> ELSE Contents(ls[k]) \o ConcatLists(ls, k + 1)

\* C11: when generate_sub_lists returns, the returned sublists concatenated in
\* order are what origin_list held at the call, each is at most max_len long,
\* each but the last exactly max_len, and a list no longer than max_len comes
\* back as the one sublist.
C11_ChunksRebuildItems ==
    cpc = "returned" =>
        /\ ConcatLists(sub_lists, 1) = items0
        /\ \A i \in 1..Len(sub_lists) : Len(Contents(sub_lists[i])) <= max_len
        /\ \A i \in 1..(Len(sub_lists) - 1) : Len(Contents(sub_lists[i])) = max_len
        /\ Len(items0) <= max_len =>
              (Len(sub_lists) = 1 /\ Contents(sub_lists[1]) = items0)

\* C11 witness: a list of 3 was split with max_len 2 into a full sublist and
\* a rest.
C11_Witness ==
    /\ cpc = "returned"
    /\ items0 = <<1, 2, 1>>
    /\ max_len = 2
    /\ Len(sub_lists) = 2
    /\ Contents(sub_lists[1]) = <<1, 2>>
    /\ Contents(sub_lists[2]) = <<1>>

\* C18 as claimed: generate_sub_lists terminates.  The loop test reads only
\* origin_list and max_len and the body is deterministic, so the call
\* terminates iff no iteration leaves origin_list as it found it.
C18_EveryIterationShortens ==
    [][(cpc = "loop" /\ cpc' = "loop") => Len(origin_list') < Len(origin_list)]_vars

\* C19 as claimed: when generate_sub_lists returns, origin_list holds what it
\* held at the call, and if the list was split no returned sublist is the
\* object origin_list.
C19_OriginListUnchanged ==
    cpc = "returned" =>
        /\ origin_list = items0
        /\ Len(sub_lists) > 1 => \A i \in 1..Len(sub_lists) : ~sub_lists[i].alias

\* C12: a call of run with no channel on a paginator without a message raises
\* TypeError at once: nothing is sent, attached or awaited and self.message
\* stays None; any other call raises no TypeError and works with the channel
\* argument if there is one, else with the message's channel.
C12_MissingChannel ==
    /\ pc = "constructed" =>
          \A us \in SUBSET UserIds, ch \in ChannelKinds \cup {"None"}, t \in 1..MaxTimeout :
              /\ ENABLED RunCall(us, ch, t)
              /\ ~ENABLED (/\ RunCall(us, ch, t)
                           /\ ~(IF ch = "None" /\ message = NoMessage
                                THEN /\ pc' = "raised"
                                     /\ exc' = "TypeError"
                                     /\ UNCHANGED <<message, nSent, reactions,
                                                    lastCall, shown, reaction>>
                                ELSE /\ pc' \in {"send_single", "send_first"}
                                     /\ exc' = "None"
                                     /\ channel' = IF ch # "None" THEN ch
                                                   ELSE message.channel))
    /\ exc = "TypeError" =>
          /\ pc = "raised"
          /\ message = NoMessage
          /\ nSent = 0
          /\ reactions = <<>>
          /\ lastCall = NoCall
          /\ shown = NoEmbed
          /\ reaction = NoReaction

\* C12 witness: run raised TypeError, events have been delivered since, and
\* still nothing was sent.
C12_Witness ==
    /\ exc = "TypeError"
    /\ pc = "raised"
    /\ Len(pages) = 2
    /\ nSent = 0
    /\ nEvents = 2

\* C13 as claimed: a paginator that holds an existing message sends no new
\* message.
C13_ExistingMessageNotResent ==
    [][message.id = "Given" => nSent' = nSent]_vars

\* C14: BotEmbedPaginator.run(channel, users) is EmbedPaginator.run with
\* users = [ctx.author] when users is None (a given list, the empty one
\* included, is kept) and channel = ctx.channel when there is neither a
\* channel nor a message; it never raises the missing-channel TypeError.
C14_BotDefaults ==
    /\ exc # "TypeError"
    /\ pc # "constructed" => channel # "None"
    /\ pc = "constructed" =>
          \A ch \in ChannelKinds \cup {"None"},
             us \in {NoUsers} \cup {<<s>> : s \in SUBSET UserIds} :
              /\ ENABLED BotRunCall(ch, us)
              /\ ~ENABLED (/\ BotRunCall(ch, us)
                           /\ ~(/\ RunCall(IF us = NoUsers THEN {ctx.author} ELSE us[1],
                                           IF ch = "None" /\ message = NoMessage
                                           THEN ctx.channel ELSE ch,
                                           DefaultTimeout)
                                /\ users' = IF us = NoUsers THEN {ctx.author} ELSE us[1]
                                /\ us = <<{}>> => users' = {}
                                /\ channel' = IF ch # "None" THEN ch
                                              ELSE IF message # NoMessage
                                              THEN message.channel
                                              ELSE ctx.channel
                                /\ pc' \in {"send_single", "send_first"}))

\* C14 witness: a session started with both defaults took an event of the
\* context's author and waits again.
C14_Witness ==
    /\ ctx # NoCtx
    /\ users = {ctx.author}
    /\ channel = ctx.channel
    /\ timeout = DefaultTimeout
    /\ pc = "wait_for"
    /\ reaction # NoReaction
    /\ reaction.user = ctx.author

\* C15: every accepted first/previous/next/last event, also one that loads
\* the index the session is at, edits the message to the formatted page at
\* the loaded index and then removes the reaction that triggered it, except
\* that in a DMChannel or GroupChannel nothing is removed; so a waiting
\* session shows the formatted page at its current index.
C15_Rerender ==
    [][/\ (pc = "wait_for" /\ pc' \in {"edit", "delete"}
              /\ reaction'.emoji \in NavEmojis) => pc' = "edit"
       /\ (pc = "edit" /\ pc' \notin {"edit", "raised"}) =>
             /\ lastCall' = Call("edit", NoReaction, "ok")
             /\ shown' = FormattedEmbeds(pages, heap)[load_page_index + 1]
             /\ IF channel \in {"DMChannel", "GroupChannel"}
                THEN pc' = "wait_for"
                ELSE pc' = "remove_reaction"
       /\ (pc = "remove_reaction" /\ pc' # "remove_reaction") =>
             /\ lastCall = Call("edit", NoReaction, "ok")
             /\ lastCall'.op = "remove_reaction"
             /\ lastCall'.reaction = reaction
             /\ reaction.emoji \in NavEmojis
             /\ channel = "TextChannel"
       /\ lastCall'.op = "remove_reaction" => channel = "TextChannel"
       /\ pc' = "wait_for" =>
             shown' = FormattedEmbeds(pages', heap')[current_page_index' + 1]]_vars

\* C15 witness: "previous" at index 0 of a TextChannel session was accepted,
\* the first page was rendered again and the reaction removed.
C15_Witness ==
    /\ pc = "wait_for"
    /\ channel = "TextChannel"
    /\ reaction.emoji = "PREVIOUS"
    /\ nEvents = 1
    /\ current_page_index = 0
    /\ lastCall = Call("remove_reaction", reaction, "ok")
    /\ shown = FormattedEmbeds(pages, heap)[1]

\* where run awaits a call of the API
CallSites ==
    {"send_single", "send_first", "add_reaction", "edit", "remove_reaction",
     "clear_reactions", "delete"}

\* the step is the one that completes the call run is awaiting (an event
\* delivered meanwhile counts up nEvents)
CallCompletes == pc \in CallSites /\ nEvents' = nEvents

\* C16 as claimed: Forbidden out of remove_reaction is passed over, the
\* session waits again at the loaded index; every other failure of a call,
\* clear_reactions included, leaves run as an exception.
C16_OnlyRemovalForbiddenSwallowed ==
    [][CallCompletes =>
          IF lastCall'.res = "ok" THEN pc' # "raised"
          ELSE IF pc = "remove_reaction" /\ lastCall'.res = "Forbidden"
          THEN /\ pc' = "wait_for"
               /\ current_page_index' = load_page_index
               /\ exc' = "None"
          ELSE /\ pc' = "raised"
               /\ exc' = lastCall'.res]_vars

\* C16 as amended: Forbidden out of remove_reaction is passed over, the
\* session waits again at the loaded index with a fresh timeout; Forbidden
\* out of clear_reactions is passed over too and run returns; every other
\* failure of send, add_reaction, edit, remove_reaction, clear_reactions or
\* delete leaves run as that exception.
C16_FailureHandling ==
    [][CallCompletes =>
          /\ lastCall'.op = (IF pc \in {"send_single", "send_first"} THEN "send" ELSE pc)
          /\ IF lastCall'.res = "ok" THEN pc' # "raised" /\ exc' = "None"
             ELSE IF pc = "remove_reaction" /\ lastCall'.res = "Forbidden"
             THEN /\ pc' = "wait_for"
                  /\ current_page_index' = load_page_index
                  /\ elapsed' = 0
                  /\ exc' = "None"
                  /\ UNCHANGED <<shown, reactions, deleted, message>>
             ELSE IF pc = "clear_reactions" /\ lastCall'.res = "Forbidden"
             THEN /\ pc' = "returned"
                  /\ exc' = "None"
                  /\ UNCHANGED <<shown, reactions, deleted, message>>
             ELSE /\ pc' = "raised"
                  /\ exc' = lastCall'.res]_vars

\* C16 witness: remove_reaction raised Forbidden after "next", the session
\* went on at index 1, and the next event ("last") is being handled.
C16_Witness ==
    /\ Len(pages) = 3
    /\ lastCall = Call("remove_reaction",
                       [message |-> "Sent", emoji |-> "NEXT", user |-> 1], "Forbidden")
    /\ current_page_index = 1
    /\ reaction.emoji = "LAST"
    /\ load_page_index = 2
    /\ pc = "edit"
    /\ exc = "None"

\* C17: with 2 or more pages run sends the formatted first page exactly once,
\* then attaches exactly the 5 controls in the order first, previous, next,
\* last, close, and waits for an event only when the fifth is attached.
C17_Setup ==
    Len(pages) >= 2 =>
        /\ pc # "send_single"
        /\ nSent <= 1
        /\ pc \in {"constructed", "send_first"} =>
              /\ nSent = 0
              /\ reactions = <<>>
        /\ \E k \in 0..5 :
              reactions = SubSeq(<<"FIRST", "PREVIOUS", "NEXT", "LAST", "CLOSE">>, 1, k)
        /\ pc = "add_reaction" =>
              /\ nSent = 1
              /\ Len(reactions) < 5
              /\ message.id = "Sent"
              /\ shown = FormattedEmbeds(pages, heap)[1]
              /\ reaction = NoReaction
        /\ pc \in {"wait_for", "edit", "remove_reaction", "delete", "clear_reactions"} =>
              /\ nSent = 1
              /\ Len(reactions) = 5
        /\ reaction # NoReaction => nSent = 1
        /\ pc \in {"constructed", "send_first", "add_reaction"} =>
              /\ elapsed = 0
              /\ reaction = NoReaction

\* C17 witness: a two-page session has sent its first page, attached the
\* fifth control and waits for its first event.
C17_Witness ==
    /\ Len(pages) = 2
    /\ pc = "wait_for"
    /\ nSent = 1
    /\ reactions = control_emojis
    /\ lastCall = Call("add_reaction", NoReaction, "ok")
    /\ shown = FormattedEmbeds(pages, heap)[1]
    /\ nEvents = 0

\* C20: a session takes events one at a time and only while it waits: an
\* event delivered while run is not in wait_for (controls being attached, an
\* edit or a removal awaited) changes nothing and is not applied later; an
\* event is taken only by the wait it is delivered to, which ends with it;
\* the index loaded and the page rendered are those of the event taken last.
C20_OneEventPerWait ==
    [][/\ nEvents' \in {nEvents, nEvents + 1}
       /\ (nEvents' # nEvents /\ pc # "wait_for") => UNCHANGED sessionVars
       /\ (nEvents' # nEvents /\ pc = "wait_for") =>
             IF Qualifies(reaction'.message, reaction'.emoji, reaction'.user)
                /\ pc' # "wait_for"
             THEN pc' \in {"edit", "delete"}
             ELSE UNCHANGED sessionVars
       /\ (reaction' # reaction \/ load_page_index' # load_page_index) =>
             /\ pc = "wait_for"
             /\ nEvents' = nEvents + 1
       /\ (pc' \in {"edit", "delete"} /\ pc # pc') =>
             /\ pc = "wait_for"
             /\ nEvents' = nEvents + 1
       /\ pc' = "edit" =>
             load_page_index' =
                NavTarget(reaction'.emoji, current_page_index', Len(pages))
       /\ shown' # shown =>
             /\ pc \in {"send_single", "send_first", "edit"}
             /\ nEvents' = nEvents
       /\ current_page_index' # current_page_index =>
             /\ pc \in {"edit", "remove_reaction"}
             /\ nEvents' = nEvents
             /\ current_page_index' = load_page_index]_vars

\* C20 witness: two events were delivered while the controls were being
\* attached to a session open to everybody; no event has been taken.
C20_Witness ==
    /\ pc = "add_reaction"
    /\ users = {}
    /\ Len(reactions) = 4
    /\ nEvents = 2
    /\ reaction = NoReaction
    /\ current_page_index = 0

====
